---- MODULE Spec2Model ----
(***************************************************************************)
(* Model of src/cryptoadvance/specter/cli/cli_server.py: the `server`      *)
(* command (option handling, configure_ssl, init_app, the nested run()     *)
(* with its try/finally) and configure_ssl's certificate provisioning.     *)
(*                                                                         *)
(* One behaviour of Spec is one server process, from the entry of          *)
(* server() to the point where it returns, raises or exits.  SpecSSL       *)
(* models successive process starts against the same file system, each     *)
(* calling configure_ssl once.                                             *)
(***************************************************************************)
EXTENDS Integers, Sequences, FiniteSets, TLC

VARIABLES
    opts,           \* click options of server(): ssl, cert, key, debug, tor, hwibridge
    env_CONNECT_TOR,\* os.getenv("CONNECT_TOR") == "True"
    app_config,     \* app.config: CERT, KEY, PORT
    kwargs,         \* the kwargs dict handed to app.run
    fs,             \* file system: existing path -> content
    gen,            \* number of key pairs generated so far (labels file contents)
    fs_before,      \* file system when the latest configure_ssl call began
    ssl_call,       \* what the latest configure_ssl call did
    prev_kwargs,    \* kwargs returned by the configure_ssl call before the latest
    prev_call,      \* what that call did, and the CERT and KEY paths it had
    calls,          \* configure_ssl calls so far
    specter,        \* app.specter: config["tor_status"], tor_controller
    app,            \* app.port, app.tor_port, app.tor_enabled, app.tor_service_id
    hs_registered,  \* whether a hidden-service mapping is registered with Tor
    debug_flag,     \* the debug argument run() was called with
    debug,          \* run()'s local variable debug
    pending,        \* exception in flight (or that left run()): kind and raiser
    log,            \* calls made to the collaborators, in order
    pc              \* position in server()

vars == <<opts, env_CONNECT_TOR, app_config, kwargs, fs, gen, fs_before, ssl_call,
          prev_kwargs, prev_call, calls, specter, app, hs_registered, debug_flag,
          debug, pending, log, pc>>

ssl_vars == <<app_config, kwargs, fs, gen, fs_before, ssl_call>>
run_vars == <<specter, app, hs_registered, debug_flag, debug, pending, log>>

----------------------------------------------------------------------------
(* Bounds *)

\* configure_ssl calls (process starts) in one behaviour of SpecSSL
MaxCalls == 3

----------------------------------------------------------------------------
(* Values *)

None == "None"
Unset == "unset"

\* paths: the --cert / --key arguments and the defaults under SPECTER_DATA_FOLDER
XCert == "/x/cert.pem"
XKey == "/x/key.pem"
SPECTER_DATA_FOLDER == "~/.specter"
DefaultCert == "~/.specter/cert.pem"
DefaultKey == "~/.specter/key.pem"
Paths == {XCert, XKey, DefaultCert, DefaultKey}

\* default - 25441
DefaultPort == 25441

\* a --port argument: the https port, bound with or without TLS
CliPort == 443

\* file contents: a file that was there before, a PEM written by generation g,
\* or a file opened for writing whose write then failed
OldFile == [kind |-> "old", gen |-> 0]
Truncated == [kind |-> "truncated", gen |-> 0]
CertPem(g) == [kind |-> "cert", gen |-> g]
KeyPem(g) == [kind |-> "key", gen |-> g]

\* exception classes: SpecterError is an Exception; BaseException stands for
\* the non-Exception ones (KeyboardInterrupt, SystemExit)
ExcKinds == {"SpecterError", "Exception", "BaseException"}
IsException(k) == k \in {"SpecterError", "Exception"}
IsSpecterError(k) == k = "SpecterError"

NoExc == [kind |-> "none", by |-> "none"]
Exc(k, op) == [kind |-> k, by |-> op]

Event(op, out) == [op |-> op, out |-> out]
Count(op) == Cardinality({i \in 1..Len(log) : log[i].op = op})
Called(op) == \E i \in 1..Len(log) : log[i].op = op
Outcome(op, out) == \E i \in 1..Len(log) : log[i] = Event(op, out)

exists(p) == p \in DOMAIN fs

\* fs with path p written (an existing file is replaced)
WriteFile(f, p, c) == [q \in (DOMAIN f) \cup {p} |-> IF q = p THEN c ELSE f[q]]

----------------------------------------------------------------------------
(* configure_ssl *)

\* where the generation block may raise: nowhere, in k.generate_key, in
\* open(CERT, "wt"), in its write(), in open(KEY, "wt"), in its write()
Faults == {"none", "generate_key", "open_cert", "write_cert", "open_key", "write_key"}

\* app.config as server() leaves it before configure_ssl: CERT and KEY are
\* None unless --cert / --key were given, PORT is int(port) when --port was
ConfigFromOptions(o) ==
    [CERT |-> IF o.cert THEN XCert ELSE None,
     KEY |-> IF o.key THEN XKey ELSE None,
     PORT |-> IF o.port # None THEN CliPort ELSE DefaultPort]

\* kwargs = {"host": host, "port": app.config["PORT"]}
BaseKwargs(cfg) == [port |-> cfg.PORT]

\* the generation block with the write of the key file left out
GenerateFs_SkipsKey(f, certp, keyp, g, fault) ==
    CASE fault \in {"generate_key", "open_cert"} -> f
      [] fault = "write_cert" -> WriteFile(f, certp, Truncated)
      [] OTHER -> WriteFile(f, certp, CertPem(g))

\* the file system after the generation block ran with the given fault
GenerateFs(f, certp, keyp, g, fault) ==
    CASE fault \in {"generate_key", "open_cert"} -> f
      [] fault = "write_cert" -> WriteFile(f, certp, Truncated)
      [] fault = "open_key" -> WriteFile(f, certp, CertPem(g))
      [] fault = "write_key" ->
            WriteFile(WriteFile(f, certp, CertPem(g)), keyp, Truncated)
      [] OTHER -> WriteFile(WriteFile(f, certp, CertPem(g)), keyp, KeyPem(g))

\* files opened for writing by the generation block
GenerateWrites(fault) ==
    CASE fault \in {"generate_key", "open_cert"} -> 0
      [] fault \in {"write_cert", "open_key"} -> 1
      [] OTHER -> 2

WithDefaults(cfg) ==
    [cfg EXCEPT !.CERT = IF @ = None THEN DefaultCert ELSE @,
                !.KEY = IF @ = None THEN DefaultKey ELSE @]

\* the test with the key file checked in place of the cert file
NeedsGeneration_ChecksKey(c, f) == c.KEY \notin DOMAIN f

\* the test made on both files: a missing key file also triggers generation
NeedsGeneration_ChecksBoth(c, f) == c.CERT \notin DOMAIN f \/ c.KEY \notin DOMAIN f

\* the test left out: every call generates
NeedsGeneration_Always(c, f) == TRUE

\* if not os.path.exists(app_config["CERT"])
NeedsGeneration(c, f) == c.CERT \notin DOMAIN f

\* configure_ssl(kwargs, app_config, ssl) on file system f; g labels the key
\* pair it would generate.  Returns what the call leaves behind.
configure_ssl(kw, cfg, ssl, f, g, fault) ==
    IF ~ssl /\ cfg.CERT = None
    THEN [kwargs |-> kw, app_config |-> cfg, fs |-> f, raised |-> FALSE,
          provisioned |-> FALSE, generated |-> FALSE, writes |-> 0]
    ELSE LET c == WithDefaults(cfg) IN
         IF NeedsGeneration(c, f)
         THEN [kwargs |-> IF fault = "none"
                          THEN kw @@ [ssl_context |-> <<c.CERT, c.KEY>>]
                          ELSE kw,
               app_config |-> c,
               fs |-> GenerateFs(f, c.CERT, c.KEY, g, fault),
               raised |-> fault # "none",
               provisioned |-> TRUE,
               generated |-> fault # "generate_key",
               writes |-> GenerateWrites(fault)]
         ELSE [kwargs |-> kw @@ [ssl_context |-> <<c.CERT, c.KEY>>],
               app_config |-> c, fs |-> f, raised |-> FALSE,
               provisioned |-> TRUE, generated |-> FALSE, writes |-> 0]

NoCall == [raised |-> FALSE, provisioned |-> FALSE, generated |-> FALSE, writes |-> 0]

----------------------------------------------------------------------------
(* State at the entry of server(), options applied *)

Options ==
    [ssl : BOOLEAN, cert : BOOLEAN, key : BOOLEAN, debug : {None, "True", "False"},
     tor : BOOLEAN, hwibridge : BOOLEAN, port : {None, "443"}]

FileSystems == UNION {[S -> {OldFile}] : S \in SUBSET Paths}

NoApp == [port |-> 0, tor_port |-> 0, tor_enabled |-> Unset, tor_service_id |-> Unset]

Init ==
    /\ opts \in Options
    /\ env_CONNECT_TOR \in BOOLEAN
    /\ app_config = ConfigFromOptions(opts)
    /\ kwargs = BaseKwargs(app_config)
    /\ fs \in FileSystems
    /\ gen = 0
    /\ fs_before = fs
    /\ ssl_call = NoCall
    /\ prev_kwargs = BaseKwargs(app_config)
    /\ prev_call = [call |-> NoCall, CERT |-> None, KEY |-> None]
    /\ calls = 0
    /\ specter \in [tor_status : BOOLEAN, tor_controller : {FALSE}]
    /\ app = NoApp
    /\ hs_registered = FALSE
    /\ debug_flag = Unset
    /\ debug = Unset
    /\ pending = NoExc
    /\ log = <<>>
    /\ pc = "configure_ssl"

\* the exception of configure_ssl swallowed: server() goes on
AfterConfigureSsl_Swallows(raised) == "init_app"

\* nothing in server() catches an exception of configure_ssl: it ends the
\* process before init_app and run()
AfterConfigureSsl(raised) == IF raised THEN "aborted" ELSE "init_app"

\* kwargs = configure_ssl(kwargs, app.config, ssl); an exception leaves server()
CallConfigureSsl ==
    /\ pc = "configure_ssl"
    /\ \E fault \in Faults :
         LET r == configure_ssl(kwargs, app_config, opts.ssl, fs, gen + 1, fault) IN
         /\ kwargs' = r.kwargs
         /\ app_config' = r.app_config
         /\ fs' = r.fs
         /\ gen' = IF r.generated THEN gen + 1 ELSE gen
         /\ fs_before' = fs
         /\ ssl_call' = [raised |-> r.raised, provisioned |-> r.provisioned,
                         generated |-> r.generated, writes |-> r.writes]
         /\ pending' = IF r.raised THEN Exc("Exception", "configure_ssl") ELSE NoExc
         /\ pc' = AfterConfigureSsl(r.raised)
    /\ calls' = calls + 1
    /\ UNCHANGED <<opts, env_CONNECT_TOR, prev_kwargs, prev_call, specter, app,
                   hs_registered, debug_flag, debug, log>>


----------------------------------------------------------------------------
(* server() after configure_ssl, and run() *)

Bool(b) == IF b THEN "True" ELSE "False"

\* what a call to a collaborator may do: return, or raise one of ExcKinds
Outcomes == {"ok"} \cup ExcKinds

\* the handler narrowed to SpecterError
CaughtByTorHandler_OnlySpecterError(k) == IsSpecterError(k)

\* `except Exception as e` around start_hidden_service / toggle_tor_status
CaughtByTorHandler(k) == IsException(k)

\* `except SpecterError as se` around tor_controller.close()
CaughtByCloseHandler(k) == IsSpecterError(k)

\* tor or os.getenv("CONNECT_TOR") == "True"
TorRequested == opts.tor \/ env_CONNECT_TOR

\* the condition of the `if` that guards start_hidden_service
TorBranch == opts.tor \/ env_CONNECT_TOR \/ specter.tor_status

\* the handler leaving app.tor_enabled as the try block set it
TorDisabled_KeepsEnabled(a) == [a EXCEPT !.tor_service_id = None, !.tor_enabled = "True"]

\* the body of the `except Exception` handler
TorDisabled(a) == [a EXCEPT !.tor_service_id = None, !.tor_enabled = "False"]

\* the logical port taken from the port the server binds
TorPort_FromBindPort(kw) == IF kw.port = 443 THEN 443 ELSE 80

\* if "ssl_context" in kwargs: tor_port = 443 else: tor_port = 80
TorPort(kw) == IF "ssl_context" \in DOMAIN kw THEN 443 ELSE 80

\* the start tried again after a failure
AfterTorFailure_Retries == "tor_branch"

\* after the `except Exception` handler control falls through to app.run
AfterTorFailure == "app_run"

\* the debug flag left as it was given
PrologueDebug_KeepsDebug(flag) == flag

\* if debug and (tor or os.getenv("CONNECT_TOR") == "True"): debug = False
PrologueDebug(flag) == IF flag = "True" /\ TorRequested THEN "False" ELSE flag

\* app.app_context().push(); init_app(...); the hwibridge check, which exits
\* the process when kwargs carry an ssl_context
InitApp ==
    /\ pc = "init_app"
    /\ \E c \in BOOLEAN : specter' = [specter EXCEPT !.tor_controller = c]
    /\ pc' = IF opts.hwibridge /\ "ssl_context" \in DOMAIN kwargs
             THEN "exited" ELSE "run"
    /\ UNCHANGED <<opts, env_CONNECT_TOR, ssl_vars, prev_kwargs, prev_call, calls, app,
                   hs_registered, debug_flag, debug, pending, log>>

\* debug resolved from app.config["DEBUG"] when the option is None; run() up to
\* the Tor branch: tor_port, app.port, the debug/Tor warning
RunPrologue ==
    /\ pc = "run"
    /\ \E cfgDEBUG \in BOOLEAN :
         debug_flag' = IF opts.debug = None THEN Bool(cfgDEBUG) ELSE opts.debug
    /\ app' = [app EXCEPT !.port = kwargs.port,
                          !.tor_port = TorPort(kwargs)]
    /\ log' = IF debug_flag' = "True" /\ TorRequested
              THEN Append(log, Event("print", "warning")) ELSE log
    /\ debug' = PrologueDebug(debug_flag')
    /\ pc' = "tor_branch"
    /\ UNCHANGED <<opts, env_CONNECT_TOR, ssl_vars, prev_kwargs, prev_call, calls, specter,
                   hs_registered, pending>>

\* app.tor_enabled = True; start_hidden_service(app)
StartHiddenService ==
    /\ pc = "tor_branch"
    /\ TorBranch
    /\ \E k \in Outcomes :
         /\ log' = Append(log, Event("start_hidden_service", k))
         /\ IF k = "ok"
            THEN /\ app' = [app EXCEPT !.tor_enabled = "True",
                                       !.tor_service_id = "service-id"]
                 /\ hs_registered' = TRUE
                 /\ pending' = pending
                 /\ pc' = IF specter.tor_status = FALSE THEN "toggle" ELSE "app_run"
            ELSE IF CaughtByTorHandler(k)
            THEN /\ app' = TorDisabled(app)
                 /\ hs_registered' = hs_registered
                 /\ pending' = pending
                 /\ pc' = AfterTorFailure
            ELSE /\ app' = [app EXCEPT !.tor_enabled = "True"]
                 /\ hs_registered' = hs_registered
                 /\ pending' = Exc(k, "start_hidden_service")
                 /\ pc' = "finally"
    /\ UNCHANGED <<opts, env_CONNECT_TOR, ssl_vars, prev_kwargs, prev_call, calls, specter,
                   debug_flag, debug>>

\* app.specter.toggle_tor_status(), still inside the try around the start
ToggleTorStatus ==
    /\ pc = "toggle"
    /\ \E k \in Outcomes :
         /\ log' = Append(log, Event("toggle_tor_status", k))
         /\ IF k = "ok"
            THEN /\ specter' = [specter EXCEPT !.tor_status = ~@]
                 /\ app' = app
                 /\ pending' = pending
                 /\ pc' = "app_run"
            ELSE IF CaughtByTorHandler(k)
            THEN /\ specter' = specter
                 /\ app' = TorDisabled(app)
                 /\ pending' = pending
                 /\ pc' = AfterTorFailure
            ELSE /\ specter' = specter
                 /\ app' = app
                 /\ pending' = Exc(k, "toggle_tor_status")
                 /\ pc' = "finally"
    /\ UNCHANGED <<opts, env_CONNECT_TOR, ssl_vars, prev_kwargs, prev_call, calls,
                   hs_registered, debug_flag, debug>>

\* the else branch: Tor neither requested nor enabled in the settings
SkipHiddenService ==
    /\ pc = "tor_branch"
    /\ ~TorBranch
    /\ app' = TorDisabled(app)
    /\ pc' = "app_run"
    /\ UNCHANGED <<opts, env_CONNECT_TOR, ssl_vars, prev_kwargs, prev_call, calls, specter,
                   hs_registered, debug_flag, debug, pending, log>>

\* app.run(debug=debug, **kwargs) is entered: the serve loop runs
AppRunEnter ==
    /\ pc = "app_run"
    /\ log' = Append(log, Event("app.run", debug))
    /\ pc' = "serving"
    /\ UNCHANGED <<opts, env_CONNECT_TOR, ssl_vars, prev_kwargs, prev_call, calls, specter, app,
                   hs_registered, debug_flag, debug, pending>>

\* app.run returns or raises
AppRunExit ==
    /\ pc = "serving"
    /\ \E k \in Outcomes :
         /\ log' = Append(log, Event("app.run ends", k))
         /\ pending' = IF k = "ok" THEN pending ELSE Exc(k, "app.run")
         /\ pc' = IF k = "ok" THEN "stop" ELSE "finally"
    /\ UNCHANGED <<opts, env_CONNECT_TOR, ssl_vars, prev_kwargs, prev_call, calls, specter, app,
                   hs_registered, debug_flag, debug>>

\* stop_hidden_services(app), the statement after app.run in the try block
StopHiddenServices ==
    /\ pc = "stop"
    /\ \E k \in Outcomes :
         /\ log' = Append(log, Event("stop_hidden_services", k))
         /\ hs_registered' = IF k = "ok" THEN FALSE ELSE hs_registered
         /\ pending' = IF k = "ok" THEN pending ELSE Exc(k, "stop_hidden_services")
    /\ pc' = "finally"
    /\ UNCHANGED <<opts, env_CONNECT_TOR, ssl_vars, prev_kwargs, prev_call, calls, specter, app,
                   debug_flag, debug>>

\* where run() ends once the finally block is through with exception e in flight
AfterFinally(e) == IF e = NoExc THEN "returned" ELSE "raised"

\* the close reached only when no exception is in flight
ShouldClose_OnlyOnReturn == specter.tor_controller # FALSE /\ pending = NoExc

\* if app.specter.tor_controller is not None
ShouldClose == specter.tor_controller # FALSE

\* the finally block: close the control session if there is one; an exception
\* the handler does not catch replaces the one in flight
Finally ==
    /\ pc = "finally"
    /\ IF ShouldClose
       THEN \E k \in Outcomes :
              /\ log' = Append(log, Event("tor_controller.close", k))
              /\ pending' = IF k = "ok" \/ CaughtByCloseHandler(k)
                            THEN pending ELSE Exc(k, "tor_controller.close")
       ELSE /\ log' = log
            /\ pending' = pending
    /\ pc' = AfterFinally(pending')
    /\ UNCHANGED <<opts, env_CONNECT_TOR, ssl_vars, prev_kwargs, prev_call, calls, specter, app,
                   hs_registered, debug_flag, debug>>

\* the process is started again on the same file system (SpecSSL only): what
\* follows configure_ssl in server() touches neither file
Relaunch ==
    /\ pc \in {"init_app", "aborted"}
    /\ calls < MaxCalls
    /\ opts' \in {o \in Options : /\ o.debug = opts.debug
                                  /\ o.tor = opts.tor
                                  /\ o.hwibridge = opts.hwibridge
                                  /\ o.port = opts.port}
    /\ app_config' = ConfigFromOptions(opts')
    /\ kwargs' = BaseKwargs(app_config')
    /\ prev_kwargs' = kwargs
    /\ prev_call' = [call |-> ssl_call, CERT |-> app_config.CERT,
                     KEY |-> app_config.KEY]
    /\ pending' = NoExc
    /\ pc' = "configure_ssl"
    /\ UNCHANGED <<env_CONNECT_TOR, fs, gen, fs_before, ssl_call, calls, specter, app,
                   hs_registered, debug_flag, debug, log>>

Next ==
    \/ CallConfigureSsl
    \/ InitApp
    \/ RunPrologue
    \/ StartHiddenService
    \/ ToggleTorStatus
    \/ SkipHiddenService
    \/ AppRunEnter
    \/ AppRunExit
    \/ StopHiddenServices
    \/ Finally

Spec == Init /\ [][Next]_vars

NextSSL ==
    \/ CallConfigureSsl
    \/ Relaunch

\* the options and settings configure_ssl never reads are held fixed
InitSSL ==
    /\ Init
    /\ opts.debug = None
    /\ ~opts.tor
    /\ ~opts.hwibridge
    /\ opts.port = None
    /\ ~env_CONNECT_TOR
    /\ ~specter.tor_status

SpecSSL == InitSSL /\ [][NextSSL]_vars

Ended == pc \in {"returned", "raised"}

TypeOK ==
    /\ opts \in Options
    /\ DOMAIN fs \subseteq Paths
    /\ pc \in {"configure_ssl", "aborted", "init_app", "exited", "run", "tor_branch",
               "toggle", "app_run", "serving", "stop", "finally", "returned", "raised"}
    /\ pending.kind \in {"none"} \cup ExcKinds

----------------------------------------------------------------------------
(* Properties *)

\* the latest configure_ssl call is over
SslCallOver == calls >= 1 /\ pc # "configure_ssl"

\* the latest configure_ssl call returned (did not raise)
SslReturned == SslCallOver /\ ~ssl_call.raised

HasSslContext(kw) == "ssl_context" \in DOMAIN kw

\* C1: on every exit path from the serve loop (app.run returned, or raised),
\* stop_hidden_services has been invoked exactly once when run() finishes.
C1_StopInvokedOnceOnEveryExit ==
    (Ended /\ Called("app.run")) => Count("stop_hidden_services") = 1

\* C2 as stated: with debug true and the hidden service requested through
\* --tor or CONNECT_TOR, start_hidden_service is never invoked.
C2_DebugNeverStartsHiddenService ==
    (debug_flag = "True" /\ TorRequested) => ~Called("start_hidden_service")

\* C2 amended: with debug true and the hidden service requested, the run warns
\* and turns debug off; start_hidden_service is still invoked, once and before
\* the serve loop, and app.run is called with debug=False.
C2_DebugForcedOffTorStarted ==
    (debug_flag = "True" /\ TorRequested) =>
        /\ debug = "False"
        /\ Outcome("print", "warning")
        /\ pc # "tor_branch" => Count("start_hidden_service") = 1
        /\ Called("app.run") => Outcome("app.run", "False")

C2_Witness ==
    /\ debug_flag = "True" /\ TorRequested
    /\ pc = "serving"
    /\ Outcome("start_hidden_service", "ok")

\* C3: when start_hidden_service fails with an error (an Exception), run()
\* goes on to app.run on the bound port and the error never leaves run().
C3_StartFailureContained ==
    \A k \in {"SpecterError", "Exception"} :
        Outcome("start_hidden_service", k) =>
            /\ pending.by # "start_hidden_service"
            /\ pc = "app_run" \/ Called("app.run")
            /\ kwargs.port = app_config.PORT /\ app.port = kwargs.port

C3_Witness ==
    /\ Outcome("start_hidden_service", "Exception")
    /\ pc = "serving"

\* C4: once configure_ssl has returned, kwargs carry no ssl_context if and only
\* if none of --ssl, --cert, --key was given; otherwise ssl_context holds the
\* explicit paths, or the defaults under the data folder where none was given.
C4_SslContextIffAnySignal ==
    SslReturned =>
        /\ ~HasSslContext(kwargs) <=> ~(opts.ssl \/ opts.cert \/ opts.key)
        /\ HasSslContext(kwargs) =>
             kwargs.ssl_context = <<IF opts.cert THEN XCert ELSE DefaultCert,
                                    IF opts.key THEN XKey ELSE DefaultKey>>

\* C5 as stated: with --cert and --key both given, configure_ssl generates no
\* key pair and writes no file, whatever is on the file system.
C5_ExplicitPairNeverProvisioned ==
    (SslCallOver /\ opts.cert /\ opts.key) =>
        /\ ~ssl_call.generated
        /\ ssl_call.writes = 0
        /\ fs = fs_before

\* C5 amended: with --cert and --key both given and a file at the cert path,
\* configure_ssl uses the two paths, generates nothing and writes nothing; with
\* no file at the cert path it runs the generation and, when that succeeds,
\* has written the new pair to the explicit cert and key paths.
C5_ExplicitPairUsedWhenCertExists ==
    (SslCallOver /\ opts.cert /\ opts.key) =>
        /\ XCert \in DOMAIN fs_before =>
             /\ ~ssl_call.generated /\ ssl_call.writes = 0 /\ fs = fs_before
             /\ ~ssl_call.raised
             /\ HasSslContext(kwargs) /\ kwargs.ssl_context = <<XCert, XKey>>
        /\ XCert \notin DOMAIN fs_before =>
             /\ ssl_call.generated \/ ssl_call.raised
             /\ ~ssl_call.raised =>
                  /\ ssl_call.writes = 2
                  /\ XCert \in DOMAIN fs /\ fs[XCert] = CertPem(gen)
                  /\ XKey \in DOMAIN fs /\ fs[XKey] = KeyPem(gen)
                  /\ HasSslContext(kwargs) /\ kwargs.ssl_context = <<XCert, XKey>>

C5_Witness ==
    /\ pc = "init_app" /\ opts.cert /\ opts.key
    /\ XCert \in DOMAIN fs_before /\ XKey \notin DOMAIN fs_before
    /\ HasSslContext(kwargs)

\* C6 as stated: whenever provisioning was invoked and returned, both the cert
\* file and the key file exist.
C6_PairCompleteAfterProvisioning ==
    (SslReturned /\ ssl_call.provisioned) =>
        /\ app_config.CERT \in DOMAIN fs
        /\ app_config.KEY \in DOMAIN fs

\* C6 amended: whenever provisioning was invoked and returned, the cert file
\* exists; if it was absent a fresh pair was generated and both files written,
\* and if it was present nothing was generated or written, whether or not the
\* key file exists.
C6_PairGeneratedWhenCertAbsent ==
    (SslReturned /\ ssl_call.provisioned) =>
        /\ app_config.CERT \in DOMAIN fs
        /\ app_config.CERT \notin DOMAIN fs_before =>
             /\ ssl_call.generated /\ ssl_call.writes = 2
             /\ fs[app_config.CERT] = CertPem(gen)
             /\ app_config.KEY \in DOMAIN fs /\ fs[app_config.KEY] = KeyPem(gen)
        /\ app_config.CERT \in DOMAIN fs_before =>
             /\ ~ssl_call.generated /\ ssl_call.writes = 0
             /\ fs = fs_before

C6_Witness ==
    /\ pc = "init_app" /\ ssl_call.provisioned /\ ssl_call.generated
    /\ app_config.CERT \notin DOMAIN fs_before
    /\ app_config.KEY \in DOMAIN fs

\* the latest call got the paths for which the call before it returned a TLS
\* configuration
SamePathsAsBefore ==
    /\ calls >= 2
    /\ HasSslContext(prev_kwargs)
    /\ prev_kwargs.ssl_context = <<app_config.CERT, app_config.KEY>>

\* C7: a call that follows a successful call with the same paths writes no file,
\* leaves the file system as it was and returns the same configuration; and a
\* call that finds both files present touches neither.
C7_ProvisioningIdempotent ==
    SslCallOver =>
        /\ SamePathsAsBefore =>
             /\ ssl_call.writes = 0 /\ ~ssl_call.generated
             /\ fs = fs_before
             /\ ~ssl_call.raised /\ kwargs = prev_kwargs
        /\ (/\ ssl_call.provisioned
            /\ app_config.CERT \in DOMAIN fs_before
            /\ app_config.KEY \in DOMAIN fs_before) =>
             /\ ssl_call.writes = 0 /\ ~ssl_call.generated
             /\ fs = fs_before

C7_Witness ==
    /\ pc = "init_app" /\ SamePathsAsBefore
    /\ fs_before[app_config.CERT] = CertPem(1)
    /\ fs_before[app_config.KEY] = KeyPem(1)
    /\ fs = fs_before

\* C8: an error raised by tor_controller.close() during teardown never leaves
\* run().
C8_CloseFailureSwallowed ==
    ~(/\ pc = "raised"
      /\ pending.by = "tor_controller.close"
      /\ IsException(pending.kind))

\* C9: an error raised by stop_hidden_services after the serve loop returned
\* never leaves run().
C9_StopFailureSwallowed ==
    ~(/\ pc = "raised"
      /\ pending.by = "stop_hidden_services"
      /\ IsException(pending.kind))

\* C10: when run() has ended, by whatever path, close was invoked exactly once
\* on a non-null control session; with a null one close was never invoked and
\* the release step raised nothing.
C10_ControllerClosedOnceOnEveryExit ==
    /\ Count("tor_controller.close") <= 1
    /\ Ended =>
         IF specter.tor_controller
         THEN Count("tor_controller.close") = 1
         ELSE /\ Count("tor_controller.close") = 0
              /\ pending.by # "tor_controller.close"

C10_Witness ==
    /\ pc = "raised" /\ pending.by = "app.run"
    /\ specter.tor_controller
    /\ Count("tor_controller.close") = 1

\* start_hidden_service raised an error the handler is there for
StartFailed ==
    \E k \in {"SpecterError", "Exception"} : Outcome("start_hidden_service", k)

\* positions in log of the calls of op
At(op) == {i \in 1..Len(log) : log[i].op = op}

\* C11: once start_hidden_service has failed, the registration is recorded as
\* disabled (tor_service_id None, tor_enabled False) from before the serve loop
\* until run() ends, and the start is not tried again.
C11_FailedStartStaysDisabled ==
    StartFailed =>
        /\ app.tor_service_id = None
        /\ app.tor_enabled = "False"
        /\ Count("start_hidden_service") = 1

C11_Witness ==
    /\ StartFailed
    /\ pc = "returned"
    /\ Outcome("stop_hidden_services", "ok")

\* the call before the latest had the same paths, wrote the cert file and then
\* failed on the key file
SecondWriteFailedBefore ==
    /\ calls >= 2
    /\ prev_call.call.raised
    /\ prev_call.CERT = app_config.CERT /\ prev_call.KEY = app_config.KEY
    /\ app_config.CERT \in DOMAIN fs_before
    /\ fs_before[app_config.CERT].kind = "cert"

\* C12: after a call whose key-file write failed once the cert file was written,
\* the pair on disk is inconsistent and the next call with the same paths
\* generates nothing, writes nothing and returns an ssl_context of those paths.
C12_HalfWrittenPairTakenAsProvisioned ==
    (SslCallOver /\ SecondWriteFailedBefore) =>
        /\ ~ssl_call.generated /\ ssl_call.writes = 0 /\ ~ssl_call.raised
        /\ fs = fs_before
        /\ HasSslContext(kwargs)
        /\ kwargs.ssl_context = <<app_config.CERT, app_config.KEY>>
        /\ \/ app_config.KEY \notin DOMAIN fs
           \/ fs[app_config.KEY] # KeyPem(fs[app_config.CERT].gen)

C12_Witness ==
    /\ pc = "init_app" /\ SecondWriteFailedBefore
    /\ app_config.KEY \notin DOMAIN fs
    /\ HasSslContext(kwargs)

\* C13: when configure_ssl raises (key generation or a file write failed), the
\* process ends there: start_hidden_service is never invoked and app.run is
\* never entered.
C13_ProvisioningFailureAbortsStartup ==
    (SslCallOver /\ ssl_call.raised) =>
        /\ pc = "aborted"
        /\ ~Called("start_hidden_service")
        /\ ~Called("app.run")
        /\ log = <<>>

C13_Witness ==
    /\ pc = "aborted" /\ ssl_call.raised
    /\ ssl_call.writes = 1
    /\ opts.tor

\* C14: start_hidden_service is invoked at most once, and only before app.run
\* is entered, never while or after the serve loop runs.
C14_StartOnceBeforeServeLoop ==
    /\ Count("start_hidden_service") <= 1
    /\ \A i \in At("start_hidden_service") : \A j \in At("app.run") : i < j

C14_Witness ==
    /\ pc = "returned"
    /\ Count("start_hidden_service") = 1
    /\ Outcome("toggle_tor_status", "Exception")

\* run() has set app.tor_port
PrologueDone == debug_flag # Unset

\* C15: app.tor_port is 443 exactly when kwargs carry an ssl_context and 80
\* otherwise, whatever port the server binds, and it is set before
\* start_hidden_service is invoked.
C15_TorPortFollowsTls ==
    /\ PrologueDone =>
         /\ app.tor_port = 443 <=> HasSslContext(kwargs)
         /\ app.tor_port = 80 <=> ~HasSslContext(kwargs)
         /\ app.port = app_config.PORT
    /\ Called("start_hidden_service") => PrologueDone

C15_Witness ==
    /\ Outcome("start_hidden_service", "ok")
    /\ app.port = 443 /\ app.tor_port = 80

\* C16: in a run that entered the serve loop, every close of the control session
\* comes after the serve loop has ended and after stop_hidden_services was
\* invoked.
C16_ReleasedInReverseOrder ==
    Called("app.run") =>
        \A j \in At("tor_controller.close") :
            /\ \E i \in At("app.run ends") : i < j
            /\ \E i \in At("stop_hidden_services") : i < j

\* C17: app.run is never entered with debug=True in a run that invoked
\* start_hidden_service.
C17_NoDebugServeAfterStart ==
    ~(Outcome("app.run", "True") /\ Called("start_hidden_service"))

\* C18: when the serve loop is entered with tor_enabled False and
\* tor_service_id None, start_hidden_service has not succeeded in this run and
\* no mapping is registered.
C18_RecordedStateMatchesRegistration ==
    (/\ pc = "serving"
     /\ app.tor_enabled = "False"
     /\ app.tor_service_id = None) =>
        /\ ~Outcome("start_hidden_service", "ok")
        /\ ~hs_registered

\* C19: a file that existed when configure_ssl was called still exists with
\* the same content when the call is over.
C19_ExistingFilesUntouched ==
    SslCallOver =>
        \A p \in DOMAIN fs_before : p \in DOMAIN fs /\ fs[p] = fs_before[p]

====
